---- MODULE Spec2Model ----
(***************************************************************************)
(* A model of cherrypy/lib/httputil.py: the Range header parser, the       *)
(* header element list parser with quality ordering, valid_status, the     *)
(* query string parser and the case-insensitive HeaderMap.                 *)
(*                                                                         *)
(* A Python str is modelled as a sequence of one-character strings, so     *)
(* that splitting, stripping, number conversion and case conversion are    *)
(* computed character by character as the library computes them.           *)
(***************************************************************************)
EXTENDS Integers, Sequences, FiniteSets, TLC

VARIABLES
    headervalue,      \* get_ranges: the Range header value (a str)
    content_length,   \* get_ranges: the length of the entity
    ranges,           \* get_ranges: what the call produced, or Pending
    fieldname,        \* header_elements: the header name
    fieldvalue,       \* header_elements: the header value
    elements,         \* header_elements: what the call produced, or Pending
    segments,         \* header_elements: the split of the header value
    status,           \* valid_status: the argument
    status_result,    \* valid_status: what the call produced, or Pending
    query_string,     \* parse_query_string: the argument
    keep_blank_values,\* parse_query_string: the flag
    pm,               \* parse_query_string: what the call produced, or Pending
    hmap,             \* HeaderMap: the underlying dict, stored key -> value
    log,              \* HeaderMap: the mutating calls made so far, in order
    ret               \* HeaderMap: what the last call produced

vars == <<headervalue, content_length, ranges, fieldname, fieldvalue, elements,
          segments, status, status_result, query_string, keep_blank_values, pm,
          hmap, log, ret>>

rangeVars == <<headervalue, content_length, ranges>>
elemVars == <<fieldname, fieldvalue, elements, segments>>
statusVars == <<status, status_result>>
queryVars == <<query_string, keep_blank_values, pm>>
mapVars == <<hmap, log, ret>>

\* The value of a result variable before the call has been made.
Pending == [kind |-> "pending"]

(***************************************************************************)
(* Python str primitives                                                   *)
(***************************************************************************)

\* A local variable: Body with its parameter bound to v, computed once.
With(v, Body(_)) == Body(v)

\* All strings over alphabet of length at most n.
RECURSIVE StringsUpTo(_, _)
StringsUpTo(alphabet, n) ==
    IF n = 0 THEN {<<>>}
    ELSE LET shorter == StringsUpTo(alphabet, n - 1)
         IN  shorter \cup {Append(s, c) : s \in {t \in shorter : Len(t) = n - 1},
                                           c \in alphabet}

\* s.find(c) + 1: the 1-based index of the first c in s, 0 when there is none.
RECURSIVE FindFrom(_, _, _)
FindFrom(s, c, i) ==
    IF i > Len(s) THEN 0
    ELSE IF s[i] = c THEN i
    ELSE FindFrom(s, c, i + 1)

Find(s, c) == FindFrom(s, c, 1)

\* s.count(c)
RECURSIVE Count(_, _)
Count(s, c) ==
    IF s = <<>> THEN 0
    ELSE (IF Head(s) = c THEN 1 ELSE 0) + Count(Tail(s), c)

\* s.split(c, 1): a list of one or two strings.
SplitOnce(s, c) ==
    LET i == Find(s, c)
    IN  IF i = 0 THEN <<s>>
        ELSE <<SubSeq(s, 1, i - 1), SubSeq(s, i + 1, Len(s))>>

\* s.split(c): a list of Count(s, c) + 1 strings.
RECURSIVE Split(_, _)
Split(s, c) ==
    LET i == Find(s, c)
    IN  IF i = 0 THEN <<s>>
        ELSE <<SubSeq(s, 1, i - 1)>> \o Split(SubSeq(s, i + 1, Len(s)), c)

\* c.join(parts)
RECURSIVE Join(_, _)
Join(parts, c) ==
    IF parts = <<>> THEN <<>>
    ELSE IF Len(parts) = 1 THEN parts[1]
    ELSE parts[1] \o <<c>> \o Join(Tail(parts), c)

\* s.strip(), for the one whitespace character of the model's alphabets.
RECURSIVE LStrip(_)
LStrip(s) ==
    IF s # <<>> /\ Head(s) = " " THEN LStrip(Tail(s)) ELSE s

RECURSIVE RStrip(_)
RStrip(s) ==
    IF s # <<>> /\ s[Len(s)] = " " THEN RStrip(SubSeq(s, 1, Len(s) - 1)) ELSE s

Strip(s) == RStrip(LStrip(s))

Digits == <<"0", "1", "2", "3", "4", "5", "6", "7", "8", "9">>

IsDigit(c) == \E d \in 1..10 : Digits[d] = c

DigitVal(c) == (CHOOSE d \in 1..10 : Digits[d] = c) - 1

IsDigits(s) == s # <<>> /\ \A i \in 1..Len(s) : IsDigit(s[i])

\* The number a string of decimal digits denotes.
RECURSIVE DecVal(_)
DecVal(s) ==
    IF s = <<>> THEN 0
    ELSE 10 * DecVal(SubSeq(s, 1, Len(s) - 1)) + DigitVal(s[Len(s)])

\* int(s) for a str s: surrounding whitespace is ignored, then an optional
\* sign and decimal digits; anything else is a ValueError (ok = FALSE).
IntOf(s) ==
    LET t == Strip(s)
    IN  IF IsDigits(t) THEN [ok |-> TRUE, val |-> DecVal(t)]
        ELSE IF t # <<>> /\ t[1] = "-" /\ IsDigits(Tail(t))
             THEN [ok |-> TRUE, val |-> 0 - DecVal(Tail(t))]
        ELSE [ok |-> FALSE, val |-> 0]

\* The printable ASCII characters in code point order: Ascii[i] is chr(i + 31)
\* (the grave accent, chr(96), cannot be written in a string and is named).
Ascii == <<
    " ", "!", "\"", "#", "$", "%", "&", "'", "(", ")", "*", "+",
    ",", "-", ".", "/", "0", "1", "2", "3", "4", "5", "6", "7",
    "8", "9", ":", ";", "<", "=", ">", "?", "@", "A", "B", "C",
    "D", "E", "F", "G", "H", "I", "J", "K", "L", "M", "N", "O",
    "P", "Q", "R", "S", "T", "U", "V", "W", "X", "Y", "Z", "[",
    "\\", "]", "^", "_", "grave", "a", "b", "c", "d", "e", "f", "g",
    "h", "i", "j", "k", "l", "m", "n", "o", "p", "q", "r", "s",
    "t", "u", "v", "w", "x", "y", "z", "{", "|", "}", "~">>

\* ord(c)
Ord(c) == (CHOOSE i \in 1..Len(Ascii) : Ascii[i] = c) + 31

\* a < b for two str: lexicographic by code point, a proper prefix first.
RECURSIVE StrLess(_, _)
StrLess(a, b) ==
    IF b = <<>> THEN FALSE
    ELSE IF a = <<>> THEN TRUE
    ELSE IF Head(a) # Head(b) THEN Ord(Head(a)) < Ord(Head(b))
    ELSE StrLess(Tail(a), Tail(b))

LowerLetters == <<
    "a", "b", "c", "d", "e", "f", "g", "h", "i", "j", "k", "l", "m",
    "n", "o", "p", "q", "r", "s", "t", "u", "v", "w", "x", "y", "z">>

UpperLetters == <<
    "A", "B", "C", "D", "E", "F", "G", "H", "I", "J", "K", "L", "M",
    "N", "O", "P", "Q", "R", "S", "T", "U", "V", "W", "X", "Y", "Z">>

IsLower(c) == \E i \in 1..26 : LowerLetters[i] = c

IsUpper(c) == \E i \in 1..26 : UpperLetters[i] = c

\* c.lower() and c.upper() for one character
ToLower(c) ==
    IF IsUpper(c) THEN LowerLetters[CHOOSE i \in 1..26 : UpperLetters[i] = c]
    ELSE c

ToUpper(c) ==
    IF IsLower(c) THEN UpperLetters[CHOOSE i \in 1..26 : LowerLetters[i] = c]
    ELSE c

\* s.lower()
Lower(s) == [i \in 1..Len(s) |-> ToLower(s[i])]

\* s.startswith(prefix)
StartsWith(s, prefix) ==
    Len(s) >= Len(prefix) /\ SubSeq(s, 1, Len(prefix)) = prefix


(***************************************************************************)
(* get_ranges                                                              *)
(***************************************************************************)

NoneResult == [kind |-> "None"]
ValueError == [kind |-> "ValueError"]

\* The body of the for loop of get_ranges for one brange, given the list
\* built so far: the list after this brange, or what the function returns
\* or raises from inside the loop.
RangeStep(result, brange, clen) ==
    LET parts == SplitOnce(brange, "-")
    IN  IF Len(parts) # 2 THEN ValueError
        ELSE
        LET start == Strip(parts[1])
            stop == Strip(parts[2])
        IN  IF start # <<>>
            THEN LET istart == IntOf(start)
                     istop == IF stop = <<>>
                              THEN [ok |-> TRUE, val |-> clen - 1]
                              ELSE IntOf(stop)
                 IN  IF ~istart.ok \/ ~istop.ok THEN ValueError
                     ELSE IF istart.val >= clen THEN result
                     ELSE IF istop.val < istart.val THEN NoneResult
                     ELSE [kind |-> "list",
                           list |-> Append(result.list,
                                           <<istart.val, istop.val + 1>>)]
            ELSE IF stop = <<>> THEN NoneResult
                 ELSE LET n == IntOf(stop)
                      IN  IF ~n.ok THEN ValueError
                          ELSE IF n.val > clen
                          THEN [kind |-> "list",
                                list |-> Append(result.list, <<0, clen>>)]
                          ELSE [kind |-> "list",
                                list |-> Append(result.list,
                                                <<clen - n.val, clen>>)]

\* The for loop: a return or a raise inside it ends the loop.
RECURSIVE RangeLoop(_, _, _)
RangeLoop(result, branges, clen) ==
    IF branges = <<>> THEN result
    ELSE LET next == RangeStep(result, Head(branges), clen)
         IN  IF next.kind # "list" THEN next
             ELSE RangeLoop(next, Tail(branges), clen)

get_ranges(hv, clen) ==
    IF hv = <<>> THEN NoneResult
    ELSE LET halves == SplitOnce(hv, "=")
         IN  IF Len(halves) # 2 THEN ValueError
             ELSE RangeLoop([kind |-> "list", list |-> <<>>],
                            Split(halves[2], ","), clen)

(***************************************************************************)
(* HeaderElement, AcceptElement and header_elements                        *)
(***************************************************************************)

\* RE_HEADER_SPLIT without its lookahead: a match at every comma.
RE_HEADER_SPLIT_EveryComma(s, i) ==
    s[i] = ","

\* RE_HEADER_SPLIT matches at position i of s: a comma with, from there to
\* the end of the string, an even number of double quotes (the lookahead
\* (?=(?:[^"]*"[^"]*")*[^"]*$)).
RE_HEADER_SPLIT(s, i) ==
    /\ s[i] = ","
    /\ Count(SubSeq(s, i + 1, Len(s)), "\"") % 2 = 0

\* RE_HEADER_SPLIT.split(s): the text between the matches, in order.
RECURSIVE HeaderSplitFrom(_, _, _)
HeaderSplitFrom(s, segStart, i) ==
    IF i > Len(s) THEN <<SubSeq(s, segStart, Len(s))>>
    ELSE IF RE_HEADER_SPLIT(s, i)
         THEN <<SubSeq(s, segStart, i - 1)>> \o HeaderSplitFrom(s, i + 1, i + 1)
         ELSE HeaderSplitFrom(s, segStart, i + 1)

HeaderSplit(s) == HeaderSplitFrom(s, 1, 1)

\* s.count('\\"'): the occurrences of a backslash followed by a quote.
CountEscapedQuotes(s) ==
    Cardinality({i \in 1..(Len(s) - 1) : s[i] = "\\" /\ s[i + 1] = "\""})

\* cgi._parseparam: the end of the parameter that starts s, the position of
\* the first ';' that is not inside a quoted string, 0 when there is none.
\* e is the position of the candidate ';'.
RECURSIVE ParamEnd(_, _)
ParamEnd(s, e) ==
    IF e > 1 /\ (Count(SubSeq(s, 1, e - 1), "\"")
                 - CountEscapedQuotes(SubSeq(s, 1, e - 1))) % 2 = 1
    THEN ParamEnd(s, FindFrom(s, ";", e + 1))
    ELSE e

\* cgi._parseparam(s): the stripped fields of s, each introduced by ';'.
RECURSIVE parseparam(_)
parseparam(s) ==
    IF s = <<>> \/ Head(s) # ";" THEN <<>>
    ELSE With(ParamEnd(Tail(s), Find(Tail(s), ";")), LAMBDA e :
         With(IF e = 0 THEN Len(s) ELSE e, LAMBDA end :
             <<Strip(SubSeq(Tail(s), 1, end - 1))>>
                 \o parseparam(SubSeq(Tail(s), end, Len(s) - 1))))

\* s.replace(a, b) for a two-character a and a one-character b.
RECURSIVE Replace2(_, _, _)
Replace2(s, a, b) ==
    IF Len(s) < 2 THEN s
    ELSE IF SubSeq(s, 1, 2) = a
         THEN <<b>> \o Replace2(SubSeq(s, 3, Len(s)), a, b)
         ELSE <<Head(s)>> \o Replace2(Tail(s), a, b)

\* A parameter value that is a plain str, and one that is a HeaderElement.
StrVal(s) == [elem |-> FALSE, value |-> s, params |-> <<>>]

ElemVal(e) == [elem |-> TRUE, value |-> e.value, params |-> e.params]

\* d[name] = val for a dict kept as the sequence of its items in insertion
\* order: a present key keeps its place.
DictSet(d, name, val) ==
    IF \E i \in 1..Len(d) : d[i].name = name
    THEN [i \in 1..Len(d) |->
             IF d[i].name = name THEN [name |-> name, val |-> val] ELSE d[i]]
    ELSE Append(d, [name |-> name, val |-> val])

DictHas(d, name) == \E i \in 1..Len(d) : d[i].name = name

DictGet(d, name) == d[CHOOSE i \in 1..Len(d) : d[i].name = name].val

\* cgi.parse_header: the loop over the parameters after the key.
\* The value of a parameter: a quoted string loses its quotes and escapes.
ParamValue(raw) ==
    IF Len(raw) >= 2 /\ raw[1] = "\"" /\ raw[Len(raw)] = "\""
    THEN Replace2(Replace2(SubSeq(raw, 2, Len(raw) - 1), <<"\\", "\\">>, "\\"),
                  <<"\\", "\"">>, "\"")
    ELSE raw

RECURSIVE ParseParams(_, _)
ParseParams(parts, pdict) ==
    IF parts = <<>> THEN pdict
    ELSE With(Head(parts), LAMBDA p :
         With(Find(p, "="), LAMBDA i :
             IF i > 0
             THEN ParseParams(
                      Tail(parts),
                      DictSet(pdict,
                              Lower(Strip(SubSeq(p, 1, i - 1))),
                              StrVal(ParamValue(Strip(SubSeq(p, i + 1, Len(p)))))))
             ELSE ParseParams(Tail(parts), pdict)))

\* HeaderElement.parse, that is cgi.parse_header(elementstr).
parse_header(line) ==
    With(parseparam(<<";">> \o line), LAMBDA parts :
        [key |-> Head(parts), params |-> ParseParams(Tail(parts), <<>>)])

HeaderElement_from_str(elementstr) ==
    With(parse_header(elementstr), LAMBDA ph :
        [cls |-> "HeaderElement", value |-> ph.key, params |-> ph.params])

\* q_separator ('; *q *=') matches s at position i: the position of its last
\* character '=', 0 when it does not match there.
RECURSIVE SkipSpaces(_, _)
SkipSpaces(s, i) ==
    IF i <= Len(s) /\ s[i] = " " THEN SkipSpaces(s, i + 1) ELSE i

QSepMatchEnd(s, i) ==
    IF s[i] # ";" THEN 0
    ELSE With(SkipSpaces(s, i + 1), LAMBDA j :
             IF j > Len(s) \/ s[j] # "q" THEN 0
             ELSE With(SkipSpaces(s, j + 1), LAMBDA k :
                      IF k > Len(s) \/ s[k] # "=" THEN 0 ELSE k))

\* The leftmost position at or after i where q_separator matches s, 0 when
\* there is none.
RECURSIVE QSepSearch(_, _)
QSepSearch(s, i) ==
    IF i > Len(s) THEN 0
    ELSE IF QSepMatchEnd(s, i) > 0 THEN i
    ELSE QSepSearch(s, i + 1)

\* q_separator.split(s, 1)
q_separator_split(s) ==
    With(QSepSearch(s, 1), LAMBDA i :
        IF i = 0 THEN <<s>>
        ELSE <<SubSeq(s, 1, i - 1), SubSeq(s, QSepMatchEnd(s, i) + 1, Len(s))>>)

AcceptElement_from_str(elementstr) ==
    With(q_separator_split(elementstr), LAMBDA atoms :
    With(parse_header(Strip(atoms[1])), LAMBDA ph :
        [cls |-> "AcceptElement",
         value |-> ph.key,
         params |-> IF Len(atoms) = 2
                    THEN DictSet(ph.params, <<"q">>,
                                 ElemVal(HeaderElement_from_str(Strip(atoms[2]))))
                    ELSE ph.params]))

\* ''.join(';%s=%s' % (k, v) for the items of params); a value that is a
\* HeaderElement renders as its own __str__.
RECURSIVE RenderParams(_)
RenderParams(params) ==
    IF params = <<>> THEN <<>>
    ELSE <<";">> \o Head(params).name \o <<"=">>
            \o Head(params).val.value \o RenderParams(Head(params).val.params)
            \o RenderParams(Tail(params))

\* HeaderElement.__str__
Render(e) == e.value \o RenderParams(e.params)

\* The thousandths a string of fraction digits denotes (three digits kept).
FracVal(s) ==
    DecVal(SubSeq(s \o <<"0", "0", "0">>, 1, 3))

\* float of an unsigned text: digits with an optional fraction, or a fraction
\* alone, in thousandths; ok = FALSE for any other text.
FloatUnsigned(ipart, fpart) ==
    IF /\ ipart = <<>> \/ IsDigits(ipart)
       /\ fpart = <<>> \/ IsDigits(fpart)
       /\ ipart # <<>> \/ fpart # <<>>
    THEN [ok |-> TRUE, val |-> 1000 * DecVal(ipart) + FracVal(fpart)]
    ELSE [ok |-> FALSE, val |-> 0]

\* float(s) in thousandths: surrounding whitespace is ignored, then an
\* optional sign and an unsigned number; any other text (of the model's
\* alphabets) is a ValueError (ok = FALSE).
FloatOf(s) ==
    With(Strip(s), LAMBDA t :
    With(t # <<>> /\ t[1] \in {"-", "+"}, LAMBDA signed :
    With(SplitOnce(IF signed THEN Tail(t) ELSE t, "."), LAMBDA halves :
    With(FloatUnsigned(halves[1], IF Len(halves) = 2 THEN halves[2] ELSE <<>>),
         LAMBDA f :
             IF f.ok /\ signed /\ t[1] = "-"
             THEN [ok |-> TRUE, val |-> 0 - f.val]
             ELSE f))))

\* AcceptElement.qvalue: ok = FALSE stands for the HTTPError(400) raised.
qvalue(e) ==
    FloatOf(IF DictHas(e.params, <<"q">>)
            THEN DictGet(e.params, <<"q">>).value
            ELSE <<"1">>)

\* AcceptElement.__lt__ without the comparison of the renderings on equal q.
AcceptElement_lt_NoTieBreak(self, other) ==
    With(qvalue(self), LAMBDA qs :
    With(qvalue(other), LAMBDA qo :
        IF ~qs.ok THEN [raise |-> TRUE, lt |-> FALSE, err |-> Render(self)]
        ELSE IF ~qo.ok THEN [raise |-> TRUE, lt |-> FALSE, err |-> Render(other)]
        ELSE [raise |-> FALSE, err |-> <<>>, lt |-> qs.val < qo.val]))

\* AcceptElement.__lt__: self.qvalue is read first, then other.qvalue; a
\* failing read raises with the text of the element it was read from.
AcceptElement_lt(self, other) ==
    With(qvalue(self), LAMBDA qs :
    With(qvalue(other), LAMBDA qo :
        IF ~qs.ok THEN [raise |-> TRUE, lt |-> FALSE, err |-> Render(self)]
        ELSE IF ~qo.ok THEN [raise |-> TRUE, lt |-> FALSE, err |-> Render(other)]
        ELSE IF qs.val = qo.val
             THEN [raise |-> FALSE, err |-> <<>>,
                   lt |-> StrLess(Render(self), Render(other))]
             ELSE [raise |-> FALSE, err |-> <<>>, lt |-> qs.val < qo.val]))

\* HeaderElement.__lt__
HeaderElement_lt(self, other) ==
    [raise |-> FALSE, err |-> <<>>, lt |-> StrLess(self.value, other.value)]

\* self < other, dispatched on the class of self.
Lt(self, other) ==
    IF self.cls = "AcceptElement" THEN AcceptElement_lt(self, other)
    ELSE HeaderElement_lt(self, other)

\* reversed(s)
Reverse(s) == [i \in 1..Len(s) |-> s[Len(s) + 1 - i]]

\* list.sort, count_run: the length of the run that starts the list, a[1..i-1]
\* being the run so far; a descending run goes on while a[i] < a[i-1], an
\* ascending one until a[i] < a[i-1].
RECURSIVE RunLength(_, _, _)
RunLength(a, i, descending) ==
    IF i > Len(a) THEN [raise |-> FALSE, err |-> <<>>, n |-> i - 1]
    ELSE With(Lt(a[i], a[i - 1]), LAMBDA c :
             IF c.raise THEN [raise |-> TRUE, err |-> c.err, n |-> 0]
             ELSE IF c.lt = descending THEN RunLength(a, i + 1, descending)
             ELSE [raise |-> FALSE, err |-> <<>>, n |-> i - 1])

\* list.sort, binarysort: the place of pivot in the sorted a[1..r-1], found
\* by bisection between l and r.
RECURSIVE Bisect(_, _, _, _)
Bisect(a, pivot, l, r) ==
    IF l >= r THEN [raise |-> FALSE, err |-> <<>>, at |-> l]
    ELSE With(l + ((r - l) \div 2), LAMBDA p :
         With(Lt(pivot, a[p]), LAMBDA c :
             IF c.raise THEN [raise |-> TRUE, err |-> c.err, at |-> 0]
             ELSE IF c.lt THEN Bisect(a, pivot, l, p)
             ELSE Bisect(a, pivot, p + 1, r)))

\* list.sort, binarysort: a[1..start-1] is sorted; insert a[start], a[start+1],
\* ... each at its place.
RECURSIVE BinarySort(_, _)
BinarySort(a, start) ==
    IF start > Len(a) THEN [raise |-> FALSE, err |-> <<>>, list |-> a]
    ELSE With(Bisect(a, a[start], 1, start), LAMBDA b :
             IF b.raise THEN [raise |-> TRUE, err |-> b.err, list |-> <<>>]
             ELSE BinarySort(SubSeq(a, 1, b.at - 1) \o <<a[start]>>
                                 \o SubSeq(a, b.at, start - 1)
                                 \o SubSeq(a, start + 1, Len(a)),
                             start + 1))

\* sorted(a): a list of fewer than two elements is returned without any
\* comparison; otherwise the leading run is found (and reversed when it is
\* descending) and the rest is inserted by bisection. A comparison that
\* raises ends the sort.
sorted(a) ==
    IF Len(a) < 2 THEN [raise |-> FALSE, err |-> <<>>, list |-> a]
    ELSE With(Lt(a[2], a[1]), LAMBDA first :
             IF first.raise
             THEN [raise |-> TRUE, err |-> first.err, list |-> <<>>]
             ELSE With(RunLength(a, 3, first.lt), LAMBDA run :
                      IF run.raise
                      THEN [raise |-> TRUE, err |-> run.err, list |-> <<>>]
                      ELSE BinarySort(
                               IF first.lt
                               THEN Reverse(SubSeq(a, 1, run.n))
                                        \o SubSeq(a, run.n + 1, Len(a))
                               ELSE a,
                               run.n + 1)))

\* fieldname.startswith('Accept') or fieldname == 'TE'
IsAcceptFamily(name) ==
    StartsWith(name, <<"A", "c", "c", "e", "p", "t">>) \/ name = <<"T", "E">>

\* The loop of header_elements: one element per segment, of the class the
\* field name selects.
ParseSegments(name, segs) ==
    [i \in 1..Len(segs) |->
        IF IsAcceptFamily(name)
        THEN AcceptElement_from_str(segs[i])
        ELSE HeaderElement_from_str(segs[i])]

header_elements(name, value) ==
    IF value = <<>> THEN [kind |-> "list", list |-> <<>>]
    ELSE With(sorted(ParseSegments(name, HeaderSplit(value))), LAMBDA s :
             IF s.raise
             THEN [kind |-> "HTTPError", code |-> 400, header |-> s.err]
             ELSE [kind |-> "list", list |-> Reverse(s.list)])

(***************************************************************************)
(* valid_status                                                            *)
(***************************************************************************)

\* The arguments of valid_status: None, an int or a str.
NoneStatus == [type |-> "None"]

IntStatus(n) == [type |-> "int", val |-> n]

StrStatus(s) == [type |-> "str", str |-> s]

\* The codes of response_codes among those the model's arguments can name.
RegisteredCodes == {100, 101, 200, 500, 503}

\* response_codes[code] for a registered code: (reason, message). The entries
\* of 500 and 503 are the ones the module sets itself.
response_codes(code) ==
    IF code = 100
    THEN [reason |-> <<"C", "o", "n", "t", "i", "n", "u", "e">>,
          message |-> "Request received, please continue"]
    ELSE IF code = 101
    THEN [reason |-> <<"S", "w", "i", "t", "c", "h", "i", "n", "g", " ",
                       "P", "r", "o", "t", "o", "c", "o", "l", "s">>,
          message |-> "Switching to new protocol; obey Upgrade header"]
    ELSE IF code = 200
    THEN [reason |-> <<"O", "K">>,
          message |-> "Request fulfilled, document follows"]
    ELSE IF code = 500
    THEN [reason |-> <<"I", "n", "t", "e", "r", "n", "a", "l", " ",
                       "S", "e", "r", "v", "e", "r", " ", "E", "r", "r", "o", "r">>,
          message |-> "The server encountered an unexpected condition which prevented it from fulfilling the request."]
    ELSE [reason |-> <<"S", "e", "r", "v", "i", "c", "e", " ",
                       "U", "n", "a", "v", "a", "i", "l", "a", "b", "l", "e">>,
          message |-> "The server is currently unable to handle the request due to a temporary overloading or maintenance of the server."]

\* not status: None, 0 and the empty str are false.
IsFalsy(st) ==
    \/ st.type = "None"
    \/ st.type = "int" /\ st.val = 0
    \/ st.type = "str" /\ st.str = <<>>

\* s.partition(' '): (head, tail), tail empty when s holds no space.
Partition(s) ==
    With(Find(s, " "), LAMBDA i :
        IF i = 0 THEN [head |-> s, tail |-> <<>>]
        ELSE [head |-> SubSeq(s, 1, i - 1), tail |-> SubSeq(s, i + 1, Len(s))])

\* The part of valid_status after code and reason are told apart: code is
\* what int(code) gave, reason the explicit reason phrase or none.
StatusOfCode(code, hasReason, reason) ==
    IF ~code.ok THEN [kind |-> "ValueError", why |-> "non-numeric"]
    ELSE IF code.val < 100 \/ code.val > 599
    THEN [kind |-> "ValueError", why |-> "out of range"]
    ELSE [kind |-> "ok",
          code |-> code.val,
          reason |-> IF hasReason THEN reason
                     ELSE IF code.val \in RegisteredCodes
                     THEN response_codes(code.val).reason
                     ELSE <<>>,
          message |-> IF code.val \in RegisteredCodes
                      THEN response_codes(code.val).message
                      ELSE ""]

\* valid_status for a status that is not false.
StatusOfTruthy(st) ==
    IF st.type = "str"
    THEN With(Partition(st.str), LAMBDA p :
             StatusOfCode(IntOf(p.head), Strip(p.tail) # <<>>, Strip(p.tail)))
    ELSE StatusOfCode([ok |-> TRUE, val |-> st.val], FALSE, <<>>)

valid_status(st) ==
    IF IsFalsy(st) THEN StatusOfTruthy(IntStatus(200))
    ELSE StatusOfTruthy(st)

(***************************************************************************)
(* parse_query_string                                                      *)
(***************************************************************************)

HexLetters == <<"a", "b", "c", "d", "e", "f">>

IsHexDigit(c) == IsDigit(c) \/ \E i \in 1..6 : HexLetters[i] = ToLower(c)

HexVal(c) ==
    IF IsDigit(c) THEN DigitVal(c)
    ELSE 9 + (CHOOSE i \in 1..6 : HexLetters[i] = ToLower(c))

\* The character a byte decodes to: chr(n) below 0x80, a control character
\* written by its code. A byte from 0x80 on is no UTF-8 text by itself; the
\* lead bytes that could precede it need a hex digit c to f, which the
\* model's alphabet does not have, so such a byte is always undecodable.
Undecodable == "undecodable"

Chr(n) ==
    IF n >= 128 THEN Undecodable
    ELSE IF n >= 32 /\ n <= 126 THEN Ascii[n - 31]
    ELSE "chr" \o ToString(n)

\* urllib.parse.unquote before the bytes are decoded: each %XX with two hex
\* digits becomes the byte of that code, any other % stays as it is.
RECURSIVE unquote(_)
unquote(s) ==
    IF s = <<>> THEN <<>>
    ELSE IF Head(s) = "%" /\ Len(s) >= 3 /\ IsHexDigit(s[2]) /\ IsHexDigit(s[3])
    THEN <<Chr(16 * HexVal(s[2]) + HexVal(s[3]))>> \o unquote(SubSeq(s, 4, Len(s)))
    ELSE <<Head(s)>> \o unquote(Tail(s))

\* The decoding with errors='strict' raises UnicodeDecodeError.
DecodeFails(s) == \E i \in 1..Len(s) : s[i] = Undecodable

\* urllib.parse.unquote_plus: '+' becomes a space, then unquote.
unquote_plus(s) == unquote([i \in 1..Len(s) |-> IF s[i] = "+" THEN " " ELSE s[i]])

\* [s2 for s1 in qs.split('&') for s2 in s1.split(';')]
RECURSIVE SplitEach(_, _)
SplitEach(parts, c) ==
    IF parts = <<>> THEN <<>>
    ELSE Split(Head(parts), c) \o SplitEach(Tail(parts), c)

\* d[name] = value, or the promotion of d[name] to a list and the append, for
\* a dict kept as the sequence of its items in insertion order. A value is
\* a bare str (list = FALSE, one item) or a list of str.
QsAdd(d, name, value) ==
    IF \E i \in 1..Len(d) : d[i].name = name
    THEN [i \in 1..Len(d) |->
             IF d[i].name = name
             THEN [name |-> name, list |-> TRUE, items |-> Append(d[i].items, value)]
             ELSE d[i]]
    ELSE Append(d, [name |-> name, list |-> FALSE, items |-> <<value>>])

UnicodeDecodeError == [kind |-> "UnicodeDecodeError"]

\* The loop of _parse_qs with strict_parsing = 0, which parse_query_string
\* always passes: an empty pair is skipped, a pair without '=' gets an empty
\* value when blanks are kept and is skipped otherwise, and a pair is decoded
\* and stored when its value is not empty or blanks are kept. A name or a
\* value that does not decode ends the call.
RECURSIVE ParseQsLoop(_, _, _)
ParseQsLoop(pairs, keep, d) ==
    IF pairs = <<>> THEN [kind |-> "dict", d |-> d]
    ELSE With(SplitOnce(Head(pairs), "="), LAMBDA nv :
             IF Head(pairs) = <<>> THEN ParseQsLoop(Tail(pairs), keep, d)
             ELSE IF Len(nv) # 2 /\ ~keep THEN ParseQsLoop(Tail(pairs), keep, d)
             ELSE With(IF Len(nv) = 2 THEN nv[2] ELSE <<>>, LAMBDA raw :
                      IF Len(raw) > 0 \/ keep
                      THEN With(unquote_plus(nv[1]), LAMBDA name :
                           With(unquote_plus(raw), LAMBDA value :
                               IF DecodeFails(name) \/ DecodeFails(value)
                               THEN UnicodeDecodeError
                               ELSE ParseQsLoop(Tail(pairs), keep,
                                                QsAdd(d, name, value))))
                      ELSE ParseQsLoop(Tail(pairs), keep, d)))

parse_qs(qs, keep) ==
    ParseQsLoop(SplitEach(Split(qs, "&"), ";"), keep, <<>>)

\* The length of the run of decimal digits that starts at position i of s.
RECURSIVE DigitRun(_, _)
DigitRun(s, i) ==
    IF i <= Len(s) /\ IsDigit(s[i]) THEN 1 + DigitRun(s, i + 1) ELSE 0

\* image_map_pattern.match(s): '[0-9]+,[0-9]+' matches at the start of s.
image_map_pattern_match(s) ==
    With(DigitRun(s, 1), LAMBDA n :
        /\ n > 0
        /\ n + 1 <= Len(s)
        /\ s[n + 1] = ","
        /\ DigitRun(s, n + 2) > 0)

\* {'x': int(pm[0]), 'y': int(pm[1])}: int raises ValueError on a part that
\* is no integer.
ImageMapCoords(x, y) ==
    IF x.ok /\ y.ok THEN [kind |-> "imagemap", x |-> x.val, y |-> y.val]
    ELSE ValueError

parse_query_string(qs, keep) ==
    IF image_map_pattern_match(qs)
    THEN With(Split(qs, ","), LAMBDA parts :
             ImageMapCoords(IntOf(parts[1]), IntOf(parts[2])))
    ELSE parse_qs(qs, keep)

(***************************************************************************)
(* KeyTransformingDict, CaseInsensitiveDict, HeaderMap                     *)
(***************************************************************************)

\* str.title(): a cased character is upper-cased when the character before
\* it is not cased (or there is none) and lower-cased when it is.
RECURSIVE TitleFrom(_, _, _)
TitleFrom(s, i, previousIsCased) ==
    IF i > Len(s) THEN <<>>
    ELSE <<IF previousIsCased THEN ToLower(s[i]) ELSE ToUpper(s[i])>>
             \o TitleFrom(s, i + 1, IsLower(s[i]) \/ IsUpper(s[i]))

title(s) == TitleFrom(s, 1, FALSE)

\* CaseInsensitiveDict.transform_key with the key left as it is, which is
\* KeyTransformingDict.transform_key.
transform_key_Identity(key) == key

\* CaseInsensitiveDict.transform_key: str(key).title().
transform_key(key) == title(key)

\* The dict methods the subclass calls through super(), for a dict kept as
\* the sequence of its items [key, val] in insertion order.
dict_contains(d, key) == \E i \in 1..Len(d) : d[i].key = key

dict_getitem(d, key) == d[CHOOSE i \in 1..Len(d) : d[i].key = key].val

dict_setitem(d, key, val) ==
    IF dict_contains(d, key)
    THEN [i \in 1..Len(d) |-> IF d[i].key = key THEN [key |-> key, val |-> val]
                                                ELSE d[i]]
    ELSE Append(d, [key |-> key, val |-> val])

dict_delitem(d, key) == SelectSeq(d, LAMBDA item : item.key # key)

\* What a method hands back: a stored value, None, a bool, or a KeyError.
NoneValue == [kind |-> "None"]
KeyError == [kind |-> "KeyError"]
Value(v) == [kind |-> "value", value |-> v]
Bool(b) == [kind |-> "bool", b |-> b]

\* KeyTransformingDict.__getitem__
KTD_getitem(d, key) ==
    IF dict_contains(d, transform_key(key))
    THEN Value(dict_getitem(d, transform_key(key)))
    ELSE KeyError

\* KeyTransformingDict.__contains__
KTD_contains(d, key) == Bool(dict_contains(d, transform_key(key)))

\* KeyTransformingDict.get without a default
KTD_get(d, key) ==
    IF dict_contains(d, transform_key(key))
    THEN Value(dict_getitem(d, transform_key(key)))
    ELSE NoneValue

\* HeaderMap.elements: the key is title-cased, the value is fetched with
\* get, and both go to header_elements, for which a value of None is as the
\* empty string (if not fieldvalue: return []).
HeaderMap_elements(d, key) ==
    With(KTD_get(d, title(key)), LAMBDA value :
        header_elements(title(key),
                        IF value.kind = "value" THEN value.value ELSE <<>>))

(***************************************************************************)
(* Bounds of the model                                                     *)
(***************************************************************************)

\* get_ranges: the longest byte-range-set (the text after "bytes=").
MaxRangeLen == 5
\* get_ranges: the largest content length.
MaxContentLength == 3
\* header_elements: the largest number of elements of a header value.
MaxElements == 3
\* valid_status: the longest str status.
MaxStatusLen == 5
\* parse_query_string: the longest query string.
MaxQueryLen == 5
\* HeaderMap: the largest number of calls that change the map.
MaxOps == 2
\* RE_HEADER_SPLIT: the longest header value that is split.
MaxSplitLen == 5
\* HeaderMap: the largest number of items the constructor is given.
MaxInitItems == 2

(***************************************************************************)
(* The states before any call, one group of variables per function         *)
(***************************************************************************)

RangeIdle == headervalue = <<>> /\ content_length = 0 /\ ranges = Pending

ElemIdle ==
    fieldname = <<>> /\ fieldvalue = <<>> /\ elements = Pending
        /\ segments = Pending

StatusIdle == status = NoneStatus /\ status_result = Pending

QueryIdle == query_string = <<>> /\ keep_blank_values = TRUE /\ pm = Pending

\* HeaderMap: no call made yet.
NoCall == [op |-> "none", key |-> <<>>, out |-> Pending]

MapIdle == hmap = <<>> /\ log = <<>> /\ ret = NoCall

(***************************************************************************)
(* Specification of get_ranges                                             *)
(***************************************************************************)

BytesUnit == <<"b", "y", "t", "e", "s", "=">>

RangeAlphabet == {"0", "1", "2", "-", ",", " "}

RangeHeaders ==
    {<<>>} \cup {BytesUnit \o b : b \in StringsUpTo(RangeAlphabet, MaxRangeLen)}

InitRanges ==
    /\ headervalue \in RangeHeaders
    /\ content_length \in 0..MaxContentLength
    /\ ranges = Pending
    /\ ElemIdle /\ StatusIdle /\ QueryIdle /\ MapIdle

\* One call get_ranges(headervalue, content_length).
GetRanges ==
    /\ ranges = Pending
    /\ ranges' = get_ranges(headervalue, content_length)
    /\ UNCHANGED <<headervalue, content_length>>
    /\ UNCHANGED <<elemVars, statusVars, queryVars, mapVars>>

NextRanges == GetRanges

SpecRanges == InitRanges /\ [][NextRanges]_vars

\* A byte-range-spec of the well-formed grammar: start "-" stop, each part a
\* non-negative decimal integer or empty.
IsRangeSpec(brange) ==
    /\ Count(brange, "-") = 1
    /\ \A part \in {SplitOnce(brange, "-")[1], SplitOnce(brange, "-")[2]} :
          part = <<>> \/ IsDigits(part)

\* "bytes=" followed by comma-separated byte-range-specs.
WellFormedRange(hv) ==
    /\ Len(hv) >= Len(BytesUnit)
    /\ SubSeq(hv, 1, Len(BytesUnit)) = BytesUnit
    /\ LET specs == Split(SubSeq(hv, Len(BytesUnit) + 1, Len(hv)), ",")
       IN  \A i \in 1..Len(specs) : IsRangeSpec(specs[i])

RangeSpecs(hv) == Split(SubSeq(hv, Len(BytesUnit) + 1, Len(hv)), ",")

\* A spec with both parts present and stop < start.
IsBackwards(brange) ==
    LET parts == SplitOnce(brange, "-")
    IN  /\ IsDigits(parts[1])
        /\ IsDigits(parts[2])
        /\ DecVal(parts[2]) < DecVal(parts[1])

\* C1: for a well-formed Range header and any content length, every
\* (start, stop) pair of a returned list satisfies
\* 0 <= start < stop <= content_length.
C1_RangesWithinContent ==
    (ranges.kind = "list" /\ WellFormedRange(headervalue)) =>
        \A i \in 1..Len(ranges.list) :
            /\ 0 <= ranges.list[i][1]
            /\ ranges.list[i][1] < ranges.list[i][2]
            /\ ranges.list[i][2] <= content_length

\* C2: get_ranges returns None whenever some spec of a well-formed header
\* has both parts present with stop < start, whatever its position, the
\* other specs and the content length.
C2_BackwardsSpecGivesNone ==
    (/\ ranges # Pending
     /\ WellFormedRange(headervalue)
     /\ \E i \in 1..Len(RangeSpecs(headervalue)) :
            IsBackwards(RangeSpecs(headervalue)[i]))
        => ranges = NoneResult

(***************************************************************************)
(* Specification of header_elements                                        *)
(***************************************************************************)

\* The media ranges and the parameter texts the header values are made of:
\* no q, q values equal as numbers and different as text, a separator with
\* whitespace, a q with an extension parameter, and a q that is no number.
MediaRanges == {<<"a">>, <<" ", "b">>}

AcceptParams ==
    {<<>>,
     <<";", "q", "=", "0", ".", "5", ";", "x", "=", "1">>,
     <<";", " ", "q", "=", "0", ".", "5", "0">>,
     <<";", "q", "=", "1">>,
     <<";", "q", "=", "x">>}

ElementTexts == {m \o p : m \in MediaRanges, p \in AcceptParams}

FieldValues ==
    {<<>>} \cup
    UNION {{Join(texts, ",") : texts \in [1..n -> ElementTexts]} :
              n \in 1..MaxElements}

FieldNames ==
    {<<"A", "c", "c", "e", "p", "t">>, <<"T", "E">>, <<"A", "l", "l", "o", "w">>}

InitElements ==
    /\ fieldname \in FieldNames
    /\ fieldvalue \in FieldValues
    /\ elements = Pending
    /\ segments = Pending
    /\ RangeIdle /\ StatusIdle /\ QueryIdle /\ MapIdle

\* One call header_elements(fieldname, fieldvalue).
HeaderElements ==
    /\ elements = Pending
    /\ elements' = header_elements(fieldname, fieldvalue)
    /\ UNCHANGED <<fieldname, fieldvalue, segments>>
    /\ UNCHANGED <<rangeVars, statusVars, queryVars, mapVars>>

NextElements == HeaderElements

SpecElements == InitElements /\ [][NextElements]_vars

\* The elements of an Accept-family header value as parsed, in header order.
ParsedAccept(value) ==
    LET segs == HeaderSplit(value)
    IN  [i \in 1..Len(segs) |-> AcceptElement_from_str(segs[i])]

\* The number of places of list that hold e.
Occurrences(list, e) == Cardinality({i \in 1..Len(list) : list[i] = e})

\* C3: for an Accept-family header, an element whose q is not convertible to
\* a number makes header_elements raise HTTP 400, for every number of
\* elements, one included.
C3_BadQualityRaises400 ==
    (/\ elements # Pending
     /\ IsAcceptFamily(fieldname)
     /\ fieldvalue # <<>>
     /\ LET parsed == ParsedAccept(fieldvalue)
        IN  \E i \in 1..Len(parsed) : ~qvalue(parsed[i]).ok)
        => (elements.kind = "HTTPError" /\ elements.code = 400)

\* C4: for an Accept-family header whose q values are all numeric,
\* header_elements returns a permutation of the parsed elements, one per
\* segment, in which each element is followed by one of smaller q, or of
\* equal q and a rendering that is not greater; no q counts as q = 1.
C4_SortedByQuality ==
    (elements # Pending /\ IsAcceptFamily(fieldname) /\ fieldvalue # <<>>) =>
        LET parsed == ParsedAccept(fieldvalue)
        IN  (\A i \in 1..Len(parsed) : qvalue(parsed[i]).ok) =>
            /\ elements.kind = "list"
            /\ Len(elements.list) = Count(fieldvalue, ",") + 1
            /\ \A i \in 1..Len(elements.list) :
                  Occurrences(elements.list, elements.list[i])
                      = Occurrences(parsed, elements.list[i])
            /\ \A i \in 1..(Len(elements.list) - 1) :
                  LET e == elements.list[i]
                      f == elements.list[i + 1]
                  IN  \/ qvalue(e).val > qvalue(f).val
                      \/ /\ qvalue(e).val = qvalue(f).val
                         /\ ~StrLess(Render(e), Render(f))

\* A three-element Accept-family result that the sort had to reorder, with
\* one pair ordered by q and one pair of equal q ordered by rendering, one of
\* them without a q parameter.
C4_Witness ==
    /\ elements # Pending
    /\ elements.kind = "list"
    /\ IsAcceptFamily(fieldname)
    /\ Len(elements.list) = 3
    /\ elements.list # ParsedAccept(fieldvalue)
    /\ elements.list # Reverse(ParsedAccept(fieldvalue))
    /\ qvalue(elements.list[1]).val = qvalue(elements.list[2]).val
    /\ StrLess(Render(elements.list[2]), Render(elements.list[1]))
    /\ qvalue(elements.list[2]).val > qvalue(elements.list[3]).val
    /\ \E i \in 1..2 : ~DictHas(elements.list[i].params, <<"q">>)

(***************************************************************************)
(* Specification of valid_status                                           *)
(***************************************************************************)

StatusAlphabet == {"0", "1", "6", "-", " ", "x"}

StatusInts == (-2..2) \cup (98..101) \cup {200, 500, 503} \cup (598..601)

StatusArguments ==
    {NoneStatus}
        \cup {IntStatus(n) : n \in StatusInts}
        \cup {StrStatus(s) : s \in StringsUpTo(StatusAlphabet, MaxStatusLen)}

InitStatus ==
    /\ status \in StatusArguments
    /\ status_result = Pending
    /\ RangeIdle /\ ElemIdle /\ QueryIdle /\ MapIdle

\* One call valid_status(status).
ValidStatus ==
    /\ status_result = Pending
    /\ status_result' = valid_status(status)
    /\ UNCHANGED status
    /\ UNCHANGED <<rangeVars, elemVars, queryVars, mapVars>>

NextStatus == ValidStatus

SpecStatus == InitStatus /\ [][NextStatus]_vars

\* The first space-delimited token of a str status.
FirstToken(s) == IF Find(s, " ") = 0 THEN s ELSE SubSeq(s, 1, Find(s, " ") - 1)

\* C6: valid_status raises a value error for every int outside 100..599, 0
\* and the negative ones included, and for every str whose first token is an
\* integer outside 100..599; a code it returns is within 100..599.
C6_OutOfRangeStatusRaises ==
    status_result # Pending =>
        /\ (status.type = "int" /\ (status.val < 100 \/ status.val > 599))
               => status_result.kind = "ValueError"
        /\ (/\ status.type = "str"
            /\ IntOf(FirstToken(status.str)).ok
            /\ \/ IntOf(FirstToken(status.str)).val < 100
               \/ IntOf(FirstToken(status.str)).val > 599)
               => status_result.kind = "ValueError"
        /\ status_result.kind = "ok"
               => (100 <= status_result.code /\ status_result.code <= 599)

(***************************************************************************)
(* Specification of parse_query_string                                     *)
(***************************************************************************)

QueryAlphabet == {"A", "4", "1", ",", "=", "&", ";", "+", "%"}

InitQuery ==
    /\ query_string \in StringsUpTo(QueryAlphabet, MaxQueryLen)
    /\ keep_blank_values \in BOOLEAN
    /\ pm = Pending
    /\ RangeIdle /\ ElemIdle /\ StatusIdle /\ MapIdle

\* One call parse_query_string(query_string, keep_blank_values).
ParseQueryString ==
    /\ pm = Pending
    /\ pm' = parse_query_string(query_string, keep_blank_values)
    /\ UNCHANGED <<query_string, keep_blank_values>>
    /\ UNCHANGED <<rangeVars, elemVars, statusVars, mapVars>>

NextQuery == ParseQueryString

SpecQuery == InitQuery /\ [][NextQuery]_vars

\* The whole of s is digits, one comma, digits.
IsImageMapForm(s) ==
    /\ Count(s, ",") = 1
    /\ IsDigits(SplitOnce(s, ",")[1])
    /\ IsDigits(SplitOnce(s, ",")[2])

\* C7: parse_query_string takes its argument for image-map coordinates, and
\* returns {x, y}, exactly when the whole string is digits, a comma, digits;
\* any other string is parsed as key/value pairs and does not raise on the
\* image-map path (a percent-escape that does not decode still ends the call).
C7_ImageMapOnlyWhenWholeString ==
    pm # Pending =>
        IF IsImageMapForm(query_string)
        THEN /\ pm.kind = "imagemap"
             /\ pm.x = DecVal(SplitOnce(query_string, ",")[1])
             /\ pm.y = DecVal(SplitOnce(query_string, ",")[2])
        ELSE pm.kind \in {"dict", "UnicodeDecodeError"}

\* The pairs of s, separated by '&' or ';', in order.
RawPairs(s) == SplitEach(Split(s, "&"), ";")

\* s is made of key=value pairs: each pair holds an '=', and its key and its
\* value decode.
IsKeyValueForm(s) ==
    \A i \in 1..Len(RawPairs(s)) :
        /\ Find(RawPairs(s)[i], "=") > 0
        /\ ~DecodeFails(unquote_plus(SplitOnce(RawPairs(s)[i], "=")[1]))
        /\ ~DecodeFails(unquote_plus(SplitOnce(RawPairs(s)[i], "=")[2]))

\* The decoded values, in order of appearance, of the pairs of s whose
\* decoded key is k and whose value is retained.
RECURSIVE ValuesOf(_, _, _)
ValuesOf(pairs, k, keep) ==
    IF pairs = <<>> THEN <<>>
    ELSE With(SplitOnce(Head(pairs), "="), LAMBDA nv :
             (IF unquote_plus(nv[1]) = k /\ (nv[2] # <<>> \/ keep)
              THEN <<unquote_plus(nv[2])>> ELSE <<>>)
                 \o ValuesOf(Tail(pairs), k, keep))

\* The decoded keys of the pairs of s.
KeysOf(s) ==
    {unquote_plus(SplitOnce(RawPairs(s)[i], "=")[1]) : i \in 1..Len(RawPairs(s))}

\* C8: for a query string of key=value pairs that is not of image-map form,
\* the result maps a key that occurs once to its bare value and a key that
\* occurs n >= 2 times to the list of its n values in order of appearance;
\* it has no other key.
C8_RepeatedKeysAccumulate ==
    (/\ pm # Pending
     /\ IsKeyValueForm(query_string)
     /\ ~IsImageMapForm(query_string))
        => /\ pm.kind = "dict"
           /\ \A k \in KeysOf(query_string) :
                 With(ValuesOf(RawPairs(query_string), k, keep_blank_values),
                      LAMBDA vals :
                          IF vals = <<>>
                          THEN \A i \in 1..Len(pm.d) : pm.d[i].name # k
                          ELSE \E i \in 1..Len(pm.d) :
                                  /\ pm.d[i].name = k
                                  /\ pm.d[i].items = vals
                                  /\ pm.d[i].list = (Len(vals) >= 2))
           /\ \A i \in 1..Len(pm.d) : pm.d[i].name \in KeysOf(query_string)
           /\ \A i, j \in 1..Len(pm.d) : pm.d[i].name = pm.d[j].name => i = j

\* The result of C8 for the strings that do not begin with digits, a comma,
\* digits.
C8_HoldsOffImageMapPrefix ==
    image_map_pattern_match(query_string) \/ C8_RepeatedKeysAccumulate

\* The result of C7 for the strings that do not begin with digits, a comma,
\* digits: the anchoring of image_map_pattern at the start only is the one
\* cause of a departure.
C7_OnlyPrefixFails ==
    image_map_pattern_match(query_string) \/ C7_ImageMapOnlyWhenWholeString

(***************************************************************************)
(* Specification of HeaderMap                                              *)
(***************************************************************************)

\* Header names in several letter cases: two names after normalisation.
Keys ==
    {<<"T", "E">>, <<"t", "E">>,
     <<"a", "c", "c", "e", "p", "t">>}

\* Header values whose elements carry distinct numeric q values.
Values ==
    {<<"a", ";", "q", "=", "0", ".", "5", ",", " ", "b", ";", "q", "=", "1">>,
     <<"b", ";", "q", "=", "0", ".", "5", ",", " ", "a", ";", "q", "=", "1">>}

\* The call that was made, with what it handed back.
Call(op, key, out) == [op |-> op, key |-> key, out |-> out]

InitMap ==
    /\ hmap = <<>>
    /\ log = <<>>
    /\ ret = NoCall
    /\ RangeIdle /\ ElemIdle /\ StatusIdle /\ QueryIdle

\* The calls that change the map are recorded in log, at most MaxOps of them.
Record(op, key, val) ==
    /\ Len(log) < MaxOps
    /\ log' = Append(log, [op |-> op, key |-> key, val |-> val])

\* h[key] = val
SetItem ==
    \E key \in Keys, val \in Values :
        /\ Record("setitem", key, val)
        /\ hmap' = dict_setitem(hmap, transform_key(key), val)
        /\ ret' = Call("setitem", key, NoneValue)
        /\ UNCHANGED <<rangeVars, elemVars, statusVars, queryVars>>

\* del h[key]: KeyError, and no change, when the key is not there.
DelItem ==
    \E key \in Keys :
        /\ Record("delitem", key, <<>>)
        /\ IF dict_contains(hmap, transform_key(key))
           THEN /\ hmap' = dict_delitem(hmap, transform_key(key))
                /\ ret' = Call("delitem", key, NoneValue)
           ELSE /\ hmap' = hmap
                /\ ret' = Call("delitem", key, KeyError)
        /\ UNCHANGED <<rangeVars, elemVars, statusVars, queryVars>>

\* h.pop(key) and h.pop(key, None)
Pop ==
    \E key \in Keys, withDefault \in BOOLEAN :
        /\ Record("pop", key, <<>>)
        /\ IF dict_contains(hmap, transform_key(key))
           THEN /\ hmap' = dict_delitem(hmap, transform_key(key))
                /\ ret' = Call("pop", key,
                               Value(dict_getitem(hmap, transform_key(key))))
           ELSE /\ hmap' = hmap
                /\ ret' = Call("pop", key,
                               IF withDefault THEN NoneValue ELSE KeyError)
        /\ UNCHANGED <<rangeVars, elemVars, statusVars, queryVars>>

\* h.setdefault(key, val)
SetDefault ==
    \E key \in Keys, val \in Values :
        /\ Record("setdefault", key, val)
        /\ IF dict_contains(hmap, transform_key(key))
           THEN /\ hmap' = hmap
                /\ ret' = Call("setdefault", key,
                               Value(dict_getitem(hmap, transform_key(key))))
           ELSE /\ hmap' = dict_setitem(hmap, transform_key(key), val)
                /\ ret' = Call("setdefault", key, Value(val))
        /\ UNCHANGED <<rangeVars, elemVars, statusVars, queryVars>>

\* h[key]
GetItem ==
    \E key \in Keys :
        /\ ret' = Call("getitem", key, KTD_getitem(hmap, key))
        /\ UNCHANGED <<hmap, log, rangeVars, elemVars, statusVars, queryVars>>

\* key in h
Contains ==
    \E key \in Keys :
        /\ ret' = Call("contains", key, KTD_contains(hmap, key))
        /\ UNCHANGED <<hmap, log, rangeVars, elemVars, statusVars, queryVars>>

\* h.get(key)
Get ==
    \E key \in Keys :
        /\ ret' = Call("get", key, KTD_get(hmap, key))
        /\ UNCHANGED <<hmap, log, rangeVars, elemVars, statusVars, queryVars>>

\* h.elements(key)
Elements ==
    \E key \in Keys :
        /\ ret' = Call("elements", key, HeaderMap_elements(hmap, key))
        /\ UNCHANGED <<hmap, log, rangeVars, elemVars, statusVars, queryVars>>

NextMap ==
    \/ SetItem
    \/ DelItem
    \/ Pop
    \/ SetDefault
    \/ GetItem
    \/ Contains
    \/ Get
    \/ Elements

SpecMap == InitMap /\ [][NextMap]_vars

\* No value under a name.
Absent == [kind |-> "absent"]

\* The value most recently written by the calls ops under a key that
\* normalizes (str(key).title()) to the same name as k and not deleted since,
\* Absent when there is none; cur is that value before ops.
RECURSIVE LastWritten(_, _, _)
LastWritten(ops, k, cur) ==
    IF ops = <<>> THEN cur
    ELSE With(Head(ops), LAMBDA o :
             LastWritten(Tail(ops), k,
                 IF title(o.key) # title(k) THEN cur
                 ELSE IF o.op = "setitem" THEN Value(o.val)
                 ELSE IF o.op = "setdefault"
                      THEN (IF cur = Absent THEN Value(o.val) ELSE cur)
                 ELSE Absent))

\* C5: after any sequence of item assignments, deletions, pops and
\* setdefaults under case variants of header names, h[k], k in h and h.get(k)
\* give the value most recently written under a key that normalizes to the
\* same name as k and not deleted since, and report absence otherwise; no
\* two stored keys normalize to the same name.
C5_CaseInsensitiveLookup ==
    /\ \A i, j \in 1..Len(hmap) :
           title(hmap[i].key) = title(hmap[j].key) => i = j
    /\ With(LastWritten(log, ret.key, Absent), LAMBDA w :
           /\ ret.op = "getitem" =>
                  ret.out = (IF w = Absent THEN KeyError ELSE w)
           /\ ret.op = "contains" => ret.out = Bool(w # Absent)
           /\ ret.op = "get" =>
                  ret.out = (IF w = Absent THEN NoneValue ELSE w))

\* A lookup finds the value that a later write under another case variant
\* of the key put over an earlier one.
C5_Witness ==
    /\ ret.op = "getitem"
    /\ ret.out.kind = "value"
    /\ Len(log) >= 2
    /\ log[1].op = "setitem" /\ log[2].op = "setitem"
    /\ title(log[1].key) = title(ret.key)
    /\ title(log[2].key) = title(ret.key)
    /\ log[1].key # log[2].key /\ log[2].key # ret.key
    /\ log[1].val # log[2].val
    /\ ret.out.value = log[2].val
    /\ Len(hmap) = 1

\* C10: for a HeaderMap that holds a TE header, elements(key) with the key
\* in any letter case of TE returns what header_elements('TE', value)
\* returns: the elements as AcceptElement, by descending q.
C10_ElementsOfTEAsHeaderElements ==
    (/\ ret.op = "elements"
     /\ Lower(ret.key) = <<"t", "e">>
     /\ KTD_contains(hmap, ret.key).b)
        => ret.out = header_elements(<<"T", "E">>, KTD_get(hmap, ret.key).value)

\* The same for the header Accept, whose normalized name is the exact name
\* header_elements tests for.
C10_HoldsForAccept ==
    (/\ ret.op = "elements"
     /\ Lower(ret.key) = <<"a", "c", "c", "e", "p", "t">>
     /\ KTD_contains(hmap, ret.key).b)
        => ret.out = header_elements(<<"A", "c", "c", "e", "p", "t">>,
                                     KTD_get(hmap, ret.key).value)

(***************************************************************************)
(* Specification of the splitting of a header value by RE_HEADER_SPLIT     *)
(***************************************************************************)

SplitAlphabet == {"a", ",", "\"", " "}

InitSplit ==
    /\ fieldname = <<>>
    /\ fieldvalue \in StringsUpTo(SplitAlphabet, MaxSplitLen)
    /\ elements = Pending
    /\ segments = Pending
    /\ RangeIdle /\ StatusIdle /\ QueryIdle /\ MapIdle

\* RE_HEADER_SPLIT.split(fieldvalue), the first step of header_elements.
SplitHeader ==
    /\ segments = Pending
    /\ segments' = [kind |-> "segments", list |-> HeaderSplit(fieldvalue)]
    /\ UNCHANGED <<fieldname, fieldvalue, elements>>
    /\ UNCHANGED <<rangeVars, statusVars, queryVars, mapVars>>

NextSplit == SplitHeader

SpecSplit == InitSplit /\ [][NextSplit]_vars

\* s.count('"') is even.
EvenQuotes(s) == Count(s, "\"") % 2 = 0

\* C9 as stated: for every header value, with balanced or unbalanced quotes,
\* each segment of the split has an even number of double quotes, and the
\* segments joined with ',' and split again are as many.
C9_SegmentsBalancedAndResplitStable ==
    segments # Pending =>
        /\ \A i \in 1..Len(segments.list) : EvenQuotes(segments.list[i])
        /\ Len(HeaderSplit(Join(segments.list, ","))) = Len(segments.list)

\* C9, amended: every segment after the first has an even number of double
\* quotes and the first has one exactly when the header value has, so that
\* all have when the quotes of the value are balanced; the segments joined
\* with ',' are the header value, and split again are the same segments.
C9_SegmentsBalancedForBalancedValue ==
    segments # Pending =>
        /\ \A i \in 2..Len(segments.list) : EvenQuotes(segments.list[i])
        /\ EvenQuotes(segments.list[1]) = EvenQuotes(fieldvalue)
        /\ Join(segments.list, ",") = fieldvalue
        /\ HeaderSplit(Join(segments.list, ",")) = segments.list

\* A value with a quoted comma and an unquoted one has been split in two.
C9_Witness ==
    /\ segments # Pending
    /\ Len(segments.list) = 2
    /\ Count(fieldvalue, ",") = 2
    /\ Count(fieldvalue, "\"") = 2

(***************************************************************************)
(* Specification of HeaderMap with its constructor and dict.update         *)
(***************************************************************************)

\* KeyTransformingDict.__init__: every item of dict(*args, **kargs), in
\* order, goes through __setitem__.
RECURSIVE Construct(_, _)
Construct(items, d) ==
    IF items = <<>> THEN d
    ELSE Construct(Tail(items),
                   dict_setitem(d, transform_key(Head(items).key),
                                Head(items).val))

\* The items of a dict over Keys and Values, at most MaxInitItems of them:
\* no key twice.
InitialItems ==
    {items \in UNION {[1..n -> [key : Keys, val : Values]] :
                          n \in 0..MaxInitItems} :
        \A i, j \in 1..Len(items) : items[i].key = items[j].key => i = j}

InitMapUpdate ==
    /\ \E items \in InitialItems : hmap = Construct(items, <<>>)
    /\ log = <<>>
    /\ ret = NoCall
    /\ RangeIdle /\ ElemIdle /\ StatusIdle /\ QueryIdle

\* h.update({key: val}): the class does not define update, so the call is
\* dict.update, which stores the key without calling the __setitem__ of the
\* subclass, hence without transform_key.
Update ==
    \E key \in Keys, val \in Values :
        /\ Record("update", key, val)
        /\ hmap' = dict_setitem(hmap, key, val)
        /\ ret' = Call("update", key, NoneValue)
        /\ UNCHANGED <<rangeVars, elemVars, statusVars, queryVars>>

NextMapUpdate ==
    \/ SetItem
    \/ DelItem
    \/ Pop
    \/ SetDefault
    \/ Update
    \/ Get

SpecMapUpdate == InitMapUpdate /\ [][NextMapUpdate]_vars

\* C11: after construction from any initial items and after any sequence of
\* item assignments, setdefaults, pops, deletions and updates, every stored
\* key k of a HeaderMap is normalized, k = str(k).title(), so that get(k)
\* finds its entry.
C11_StoredKeysNormalized ==
    \A i \in 1..Len(hmap) :
        /\ hmap[i].key = title(hmap[i].key)
        /\ KTD_get(hmap, hmap[i].key) = Value(hmap[i].val)

\* The same while no update has been called.
C11_HoldsWithoutUpdate ==
    (\A i \in 1..Len(log) : log[i].op # "update") => C11_StoredKeysNormalized

====
